---- MODULE Spec2Model ----
(***************************************************************************)
(* pdf2rmd (src/main.py): a four-stage pipeline over a working tree.       *)
(*                                                                         *)
(*   main -> get_pdf_input -> PDFConverter.__init__ -> convert:            *)
(*        _copy_pdf, _pdf_to_png, _run_nougat, _generate_base_rmd          *)
(*                                                                         *)
(* File names and file texts are sequences of one-character strings, so    *)
(* that suffix tests, glob patterns, the page-number regular expression,   *)
(* int(), str(), sorted() and rstrip() are computed as the code computes   *)
(* them.  The working tree persists from one process run to the next.      *)
(***************************************************************************)
EXTENDS Integers, Sequences, FiniteSets, TLC

(* ------------------------------ bounds --------------------------------- *)
\* process runs over the same working directory
MaxRuns == 2
\* pages the rasterizer writes in one invocation
MaxPages == 2

(* --------------------------- characters -------------------------------- *)
Digits == <<"0", "1", "2", "3", "4", "5", "6", "7", "8", "9">>

IsDigit(c) == \E i \in 1..10 : Digits[i] = c

DigitVal(c) == (CHOOSE i \in 1..10 : Digits[i] = c) - 1

\* code point of a character, for the comparison of names by sorted()
Ord(c) ==
  CASE c = "\n" -> 10
    [] c = " " -> 32
    [] c = "-" -> 45
    [] c = "." -> 46
    [] IsDigit(c) -> 48 + DigitVal(c)
    [] c = "D" -> 68
    [] c = "F" -> 70
    [] c = "P" -> 80
    [] c = "R" -> 82
    [] c = "a" -> 97
    [] c = "b" -> 98
    [] c = "c" -> 99
    [] c = "d" -> 100
    [] c = "e" -> 101
    [] c = "f" -> 102
    [] c = "g" -> 103
    [] c = "m" -> 109
    [] c = "n" -> 110
    [] c = "o" -> 111
    [] c = "p" -> 112
    [] c = "r" -> 114
    [] c = "t" -> 116
    [] c = "v" -> 118
    [] c = "x" -> 120

\* str.lower() on one character
LowerChar(c) ==
  CASE c = "D" -> "d"
    [] c = "F" -> "f"
    [] c = "P" -> "p"
    [] c = "R" -> "r"
    [] OTHER -> c

Lower(s) == [i \in 1..Len(s) |-> LowerChar(s[i])]

StartsWithAt(s, i, p) ==
  /\ i + Len(p) - 1 <= Len(s)
  /\ \A k \in 1..Len(p) : s[i + k - 1] = p[k]

EndsWith(s, p) ==
  /\ Len(p) <= Len(s)
  /\ StartsWithAt(s, Len(s) - Len(p) + 1, p)

\* sequence comparison as Python compares str: first difference, then length
RECURSIVE LexLessFrom(_, _, _)
LexLessFrom(s, t, i) ==
  IF i > Len(t) THEN FALSE
  ELSE IF i > Len(s) THEN TRUE
  ELSE IF s[i] = t[i] THEN LexLessFrom(s, t, i + 1)
  ELSE Ord(s[i]) < Ord(t[i])

LexLess(s, t) == LexLessFrom(s, t, 1)

\* the least name of a non-empty set
RECURSIVE Least(_, _)
Least(m, S) ==
  IF S = {} THEN m
  ELSE LET x == CHOOSE y \in S : TRUE
       IN Least(IF LexLess(x, m) THEN x ELSE m, S \ {x})

\* sorted(names)
RECURSIVE Sorted(_)
Sorted(S) ==
  IF S = {} THEN <<>>
  ELSE LET x == CHOOSE y \in S : TRUE
           m == Least(x, S \ {x})
       IN <<m>> \o Sorted(S \ {m})

(* ------------------------------ names ---------------------------------- *)
DotPdf == <<".", "p", "d", "f">>
DotPng == <<".", "p", "n", "g">>
DotMmd == <<".", "m", "m", "d">>
DotRmd == <<".", "R", "m", "d">>
PageDash == <<"p", "a", "g", "e", "-">>

\* name.rfind("."), 1-based, kept when it follows at least one character and
\* is not the last character (pathlib: 0 < i < len(name) - 1, 0-based); else 0
SuffixAt(name) ==
  LET dots == {i \in 1..Len(name) : name[i] = "."}
      last == CHOOSE i \in dots : \A j \in dots : j <= i
  IN IF dots = {} THEN 0
     ELSE IF 1 < last /\ last < Len(name) THEN last ELSE 0

\* Path.suffix
Suffix(name) ==
  IF SuffixAt(name) = 0 THEN <<>> ELSE SubSeq(name, SuffixAt(name), Len(name))

\* Path.stem
Stem(name) ==
  IF SuffixAt(name) = 0 THEN name ELSE SubSeq(name, 1, SuffixAt(name) - 1)

\* fnmatch of one name against "*" + ext
GlobExt(name, ext) == EndsWith(name, ext)

\* fnmatch of one name against "page-*.png"
GlobPage(name) ==
  /\ Len(name) >= Len(PageDash) + Len(DotPng)
  /\ StartsWithAt(name, 1, PageDash)
  /\ EndsWith(name, DotPng)

\* the end of the run of digits that starts at position i (i - 1 when none)
RECURSIVE DigitsEnd(_, _)
DigitsEnd(s, i) ==
  IF i <= Len(s) /\ IsDigit(s[i]) THEN DigitsEnd(s, i + 1) ELSE i - 1

\* whether page-(\d+)\.png matches at position i
PageMatchAt(s, i) ==
  /\ StartsWithAt(s, i, PageDash)
  /\ DigitsEnd(s, i + Len(PageDash)) >= i + Len(PageDash)
  /\ StartsWithAt(s, DigitsEnd(s, i + Len(PageDash)) + 1, DotPng)

\* re.search(r'page-(\d+)\.png', name): group(1) of the leftmost match, or <<>>
ReSearchPage(name) ==
  LET hits == {i \in 1..Len(name) : PageMatchAt(name, i)}
      first == CHOOSE i \in hits : \A j \in hits : i <= j
  IN IF hits = {} THEN <<>>
     ELSE SubSeq(name, first + Len(PageDash), DigitsEnd(name, first + Len(PageDash)))

\* int(digits)
RECURSIVE ParseInt(_)
ParseInt(ds) ==
  IF ds = <<>> THEN 0
  ELSE 10 * ParseInt(SubSeq(ds, 1, Len(ds) - 1)) + DigitVal(ds[Len(ds)])

\* str(n), n >= 0
RECURSIVE Str(_)
Str(n) ==
  IF n < 10 THEN <<Digits[n + 1]>> ELSE Str(n \div 10) \o <<Digits[(n % 10) + 1]>>

\* f"{page_num}.png"
CanonName(n) == Str(n) \o DotPng

Zeros(k) == [i \in 1..k |-> "0"]

\* the rasterizer pads page numbers to the digits of the page count: no zero
\* before a one-digit page number in a document of up to 9 pages, one in a
\* document of 10 to 99 pages
PadStyles == {0, 1}

\* the rasterizer's native name of page n with k leading zeros
NativeName(n, k) == PageDash \o Zeros(k) \o Str(n) \o DotPng

IsSpace(c) == c \in {" ", "\n"}

\* str.rstrip()
RECURSIVE RStrip(_)
RStrip(t) ==
  IF t # <<>> /\ IsSpace(t[Len(t)]) THEN RStrip(SubSeq(t, 1, Len(t) - 1)) ELSE t

(* ------------------- the source files (read-only) --------------------- *)
NameAPdf == <<"a", ".", "p", "d", "f">>
NameBPDF == <<"b", ".", "P", "D", "F">>
NameRTxt == <<"r", ".", "t", "x", "t">>
NameCPdf == <<"c", ".", "p", "d", "f">>
NameDot == <<"d", ".">>

\* absolute paths the user may supply: a directory and a file name
Paths ==
  { [dir |-> "x", name |-> NameAPdf], [dir |-> "y", name |-> NameAPdf],
    [dir |-> "x", name |-> NameBPDF], [dir |-> "x", name |-> NameRTxt],
    [dir |-> "x", name |-> NameCPdf], [dir |-> "x", name |-> NameDot] }

\* the paths that exist on disk; x/c.pdf does not
Existing == Paths \ { [dir |-> "x", name |-> NameCPdf] }

NoPath == [dir |-> "", name |-> <<>>]

(* --------------------------- working tree ------------------------------ *)
\* assets, assets/in, assets/out, assets/out/png, assets/out/nougat
DirNodes == {"assets", "in", "out", "png", "nougat"}

ParentOf(n) ==
  CASE n = "in" -> "assets"
    [] n = "out" -> "assets"
    [] n = "png" -> "out"
    [] n = "nougat" -> "out"
    [] OTHER -> ""

ForeignCover == <<"c", "o", "v", "e", "r", ".", "p", "n", "g">>
ForeignPageX == <<"p", "a", "g", "e", "-", "x", ".", "p", "n", "g">>
\* page-7.png.png: a name the glob page-*.png and the regular expression match
ForeignDoubleExt ==
  <<"p", "a", "g", "e", "-", "7", ".", "p", "n", "g", ".", "p", "n", "g">>

\* what an OCR transcript may hold: nothing, white space only, text with
\* inner and trailing white space
TextPool ==
  { <<>>, <<" ", "\n">>, <<"a", " ", "b", " ", "\n">> }

VARIABLES
  pc,        \* where the process is: idle, init, copy, png, nougat, rmd, done, crashed
  run,       \* number of process runs started
  argv,      \* the path given to this run
  pdf_path,  \* PDFConverter.pdf_path (the validated input path)
  exitCode,  \* what main() returned: -1 while it has not returned
  stages,    \* this run's stage calls in order: [stage, ok, note]
  dirs,      \* kind of each working-tree directory node: absent, dir, file
  staged,    \* assets/in: file name -> content
  pngDir,    \* assets/out/png: file name -> content
  nougatDir, \* assets/out/nougat in directory enumeration order: [name, text]
  rmdOut     \* assets/out/*.Rmd: file name -> document

vars ==
  <<pc, run, argv, pdf_path, exitCode, stages, dirs, staged, pngDir, nougatDir, rmdOut>>

fsVars == <<dirs, staged, pngDir, nougatDir, rmdOut>>

Empty == [x \in {} |-> 0]

AllAbsent == [n \in DirNodes |-> "absent"]
AllDirs == [n \in DirNodes |-> "dir"]
AssetsIsFile == [AllAbsent EXCEPT !["assets"] = "file"]

\* the working tree before the first run: not there, blocked by a file called
\* assets, or there, empty or with files of the user's in assets/out/png
Init ==
  /\ pc = "idle"
  /\ run = 0
  /\ argv = NoPath
  /\ pdf_path = NoPath
  /\ exitCode = -1
  /\ stages = <<>>
  /\ dirs \in {AllAbsent, AllDirs, AssetsIsFile}
  /\ staged = Empty
  /\ \E F \in {{}, {ForeignCover, ForeignPageX}, {ForeignDoubleExt}} :
        /\ (dirs # AllDirs => F = {})
        /\ pngDir = [n \in F |-> [kind |-> "foreign", page |-> 0, run |-> 0]]
  /\ nougatDir = <<>>
  /\ rmdOut = Empty

(* ------------------------------ main ----------------------------------- *)
\* a get_pdf_input that does not look at the extension
GetPdfInputAnySuffix(p) == IF p \notin Existing THEN NoPath ELSE p

\* get_pdf_input: the path, or NoPath for None
GetPdfInput(p) ==
  IF p \notin Existing THEN NoPath
  ELSE IF Lower(Suffix(p.name)) # DotPdf THEN NoPath
  ELSE p

\* main(), up to the construction of the converter
Main(p) ==
  /\ pc \in {"idle", "done", "crashed"}
  /\ run < MaxRuns
  /\ run' = run + 1
  /\ argv' = p
  /\ stages' = <<>>
  /\ IF GetPdfInput(p) = NoPath
     THEN /\ pc' = "done"
          /\ exitCode' = 1
          /\ pdf_path' = NoPath
     ELSE /\ pc' = "init"
          /\ exitCode' = -1
          /\ pdf_path' = GetPdfInput(p)
  /\ UNCHANGED fsVars

(* ---------------------------- __init__ --------------------------------- *)
\* Path.mkdir(parents=True, exist_ok=True) on node n; io: the file system lets
\* new entries be made.  The result: the new dirs and whether the call returned.
RECURSIVE Mkdir(_, _, _)
Mkdir(d, n, io) ==
  CASE d[n] = "dir" -> [dirs |-> d, ok |-> TRUE]
    [] d[n] = "file" -> [dirs |-> d, ok |-> FALSE]
    [] OTHER ->
       LET up == IF ParentOf(n) = "" THEN [dirs |-> d, ok |-> TRUE]
                 ELSE Mkdir(d, ParentOf(n), io)
       IN IF up.ok /\ io
          THEN [dirs |-> [up.dirs EXCEPT ![n] = "dir"], ok |-> TRUE]
          ELSE [dirs |-> up.dirs, ok |-> FALSE]

\* a constructor that forgets the last mkdir
MkdirAllButNougat(d, io) ==
  LET r1 == Mkdir(d, "in", io)
      r2 == Mkdir(r1.dirs, "out", io)
      r3 == Mkdir(r2.dirs, "png", io)
  IN IF ~r1.ok THEN r1 ELSE IF ~r2.ok THEN r2 ELSE r3

\* the four mkdir calls of __init__, in order, stopping at the first that raises
MkdirAll(d, io) ==
  LET r1 == Mkdir(d, "in", io)
      r2 == Mkdir(r1.dirs, "out", io)
      r3 == Mkdir(r2.dirs, "png", io)
      r4 == Mkdir(r3.dirs, "nougat", io)
  IN IF ~r1.ok THEN r1 ELSE IF ~r2.ok THEN r2 ELSE IF ~r3.ok THEN r3 ELSE r4

\* self.pdf_name
PdfName == Stem(pdf_path.name)

\* self.rmd_output, as a file name in assets/out
RmdName == PdfName \o DotRmd

\* PDFConverter(pdf_path): an exception of mkdir leaves main() uncaught
Construct ==
  /\ pc = "init"
  /\ \E io \in BOOLEAN :
       LET r == MkdirAll(dirs, io)
       IN /\ dirs' = r.dirs
          /\ pc' = IF r.ok THEN "copy" ELSE "crashed"
  /\ UNCHANGED <<run, argv, pdf_path, exitCode, stages, staged, pngDir, nougatDir, rmdOut>>

(* ----------------------------- convert --------------------------------- *)
\* a convert() that goes on whatever a stage returned
ConvertStepNoAbort(stage, ok) ==
  CASE stage = "A" -> "png"
    [] stage = "B" -> "nougat"
    [] stage = "C" -> "rmd"
    [] OTHER -> "done"

\* convert(): where the process goes after a stage returned ok
\* ("if not self._stage(): return 1")
ConvertStep(stage, ok) ==
  IF ~ok THEN "done"
  ELSE CASE stage = "A" -> "png"
         [] stage = "B" -> "nougat"
         [] stage = "C" -> "rmd"
         [] OTHER -> "done"

\* convert(): the value returned after a stage returned ok, -1 while it goes on
ConvertExit(stage, ok) == IF ~ok THEN 1 ELSE IF stage = "D" THEN 0 ELSE -1

\* the bookkeeping of one stage call
Returned(stage, ok, note) ==
  /\ stages' = Append(stages, [stage |-> stage, ok |-> ok, note |-> note])
  /\ pc' = ConvertStep(stage, ok)
  /\ exitCode' = ConvertExit(stage, ok)

(* ------------------------- Stage A: _copy_pdf -------------------------- *)
\* _copy_pdf on assets/in; copies: shutil.copy2 returns when it is called
\* (it raises otherwise).  The result: the new assets/in, the return value and
\* whether copy2 was called.  A staged file holds the source it is a copy of.
CopyPdf(st, path, copies) ==
  IF path.name \in DOMAIN st
  THEN [staged |-> st, ok |-> TRUE, copied |-> FALSE]
  ELSE IF copies
  THEN [staged |-> st @@ (path.name :> path), ok |-> TRUE, copied |-> TRUE]
  ELSE [staged |-> st, ok |-> FALSE, copied |-> TRUE]

\* convert(): step 1
StageA ==
  /\ pc = "copy"
  /\ \E copies \in BOOLEAN :
       LET r == CopyPdf(staged, pdf_path, copies)
       IN /\ pdf_path.name \in DOMAIN staged => copies
          /\ staged' = r.staged
          /\ Returned("A", r.ok, IF r.copied THEN "copy" ELSE "skip")
  /\ UNCHANGED <<run, argv, pdf_path, dirs, pngDir, nougatDir, rmdOut>>

(* ------------------------ Stage B: _pdf_to_png ------------------------- *)
\* the rasterizer writes pages 1..k under its native names, with pad leading
\* zeros, over whatever has these names
Rasterize(png, k, pad, r) ==
  LET new == {NativeName(i, pad) : i \in 1..k}
  IN [n \in DOMAIN png \cup new |->
        IF n \in new
        THEN [kind |-> "page", page |-> ParseInt(ReSearchPage(n)), run |-> r]
        ELSE png[n]]

\* Path.rename(a -> b) on POSIX: b is replaced when it exists
Rename(png, a, b) ==
  [n \in (DOMAIN png \ {a}) \cup {b} |-> IF n = b THEN png[a] ELSE png[n]]

\* a new_name that keeps the matched digits as they are
NewNameKeepsZeros(name) == ReSearchPage(name) \o DotPng

\* new_name of the renaming loop for a name the regular expression matches:
\* f"{int(match.group(1))}.png"
NewName(name) == CanonName(ParseInt(ReSearchPage(name)))

\* the renaming loop over page_files from index i; the rename of the file at
\* index failAt raises (0: none does)
RECURSIVE RenameLoop(_, _, _, _)
RenameLoop(png, files, i, failAt) ==
  IF i > Len(files) THEN [png |-> png, ok |-> TRUE]
  ELSE IF ReSearchPage(files[i]) = <<>> THEN RenameLoop(png, files, i + 1, failAt)
  ELSE IF i = failAt THEN [png |-> png, ok |-> FALSE]
  ELSE RenameLoop(Rename(png, files[i], NewName(files[i])), files, i + 1, failAt)

\* sorted(self.png_dir.glob("page-*.png"))
PageFiles(png) == Sorted({n \in DOMAIN png : GlobPage(n)})

\* convert(): step 2
StageB ==
  /\ pc = "png"
  /\ \/ \* pdftoppm is not installed: FileNotFoundError
        /\ pngDir' = pngDir
        /\ Returned("B", FALSE, "missing")
     \/ \* pdftoppm exits non-zero, having written the first k pages
        \E k \in 0..MaxPages, pad \in PadStyles :
          /\ k = 0 => pad = 0
          /\ pngDir' = Rasterize(pngDir, k, pad, run)
          /\ Returned("B", FALSE, "exit")
     \/ \* pdftoppm exits 0, having written every page; then the renaming loop
        \E k \in 0..MaxPages, pad \in PadStyles :
          LET ras == Rasterize(pngDir, k, pad, run)
              files == PageFiles(ras)
          IN /\ k = 0 => pad = 0
             /\ \E failAt \in 0..Len(files) :
                  LET r == RenameLoop(ras, files, 1, failAt)
                  IN /\ pngDir' = r.png
                     /\ Returned("B", r.ok,
                                 IF ~r.ok THEN "rename"
                                 ELSE IF pad = 0 THEN "plain" ELSE "padded")
  /\ UNCHANGED <<run, argv, pdf_path, dirs, staged, nougatDir, rmdOut>>

(* ------------------------ Stage C: _run_nougat ------------------------- *)
\* the file nougat writes for the staged copy
MmdName == Stem(pdf_path.name) \o DotMmd

\* index of the entry called name in a directory listing, or 0
IndexOf(dir, name) ==
  IF \E i \in 1..Len(dir) : dir[i].name = name
  THEN CHOOSE i \in 1..Len(dir) : dir[i].name = name
  ELSE 0

\* nougat writes its transcript: an existing entry keeps its place in the
\* directory, a new one takes place pos of the enumeration order
WriteMmd(dir, name, text, pos) ==
  LET e == [name |-> name, text |-> text]
  IN IF IndexOf(dir, name) # 0
     THEN [dir EXCEPT ![IndexOf(dir, name)] = e]
     ELSE SubSeq(dir, 1, pos - 1) \o <<e>> \o SubSeq(dir, pos, Len(dir))

\* list(self.nougat_out.glob("*.mmd")): directory order, not sorted
MmdFiles(dir) == SelectSeq(dir, LAMBDA e : GlobExt(e.name, DotMmd))

\* the return value of _run_nougat; how: "absent" (which exits non-zero),
\* "raise" (a subprocess call raises), "none" (nougat ran and left no file),
\* "wrote" (nougat ran and wrote its transcript); its exit code is not looked at
RunNougat(how) == how # "absent"

\* convert(): step 3
StageC ==
  /\ pc = "nougat"
  /\ \E how \in {"absent", "raise", "none", "wrote"} :
       /\ IF how = "wrote"
          THEN \E text \in TextPool, pos \in 1..(Len(nougatDir) + 1) :
                 /\ IndexOf(nougatDir, MmdName) # 0 => pos = 1
                 /\ nougatDir' = WriteMmd(nougatDir, MmdName, text, pos)
          ELSE nougatDir' = nougatDir
       /\ Returned("C", RunNougat(how), how)
  /\ UNCHANGED <<run, argv, pdf_path, dirs, staged, pngDir, rmdOut>>

(* --------------------- Stage D: _generate_base_rmd --------------------- *)
TranscriptMarker == "<!-- Nougat OCR Transcript -->"
PlaceholderMarker == "<!-- Content Placeholder -->"

\* the YAML header and setup chunk: fixed text around the title
HeaderOpen == "--- title: "
HeaderRest == " author, date, output, header-includes --- setup chunk"
Header(title) == <<HeaderOpen>> \o title \o <<HeaderRest>>

\* an rstrip() that strips nothing
RStripNothing(t) == t

\* transcript.rstrip()
Stripped(t) == RStrip(t)

\* the body written for a transcript
TranscriptBody(text) ==
  <<"\n", TranscriptMarker, "\n", "\n">> \o Stripped(text) \o <<"\n">>

\* sorted(self.png_dir.glob("*.png"))
PngFiles(png) == Sorted({n \in DOMAIN png : GlobExt(n, DotPng)})

\* the body written when there is no transcript
PlaceholderBody(png) ==
  <<"\n", PlaceholderMarker, "\n", "\n", "## Document Pages", "\n", "\n",
    "_OCR transcript not available. Document has ">>
  \o Str(Len(PngFiles(png))) \o <<" pages._", "\n", "\n">>

\* what the with-block leaves in the file, and whether it ended without raising;
\* readFails: read_text of the transcript raises
RmdDocument(title, dir, png, readFails) ==
  IF MmdFiles(dir) # <<>>
  THEN IF readFails
       THEN [doc |-> Header(title), ok |-> FALSE]
       ELSE [doc |-> Header(title) \o TranscriptBody(MmdFiles(dir)[1].text), ok |-> TRUE]
  ELSE [doc |-> Header(title) \o PlaceholderBody(png), ok |-> TRUE]

\* a file opened for appending
WriteRmdAppends(out, name, doc) ==
  [n \in DOMAIN out \cup {name} |->
     IF n = name THEN (IF name \in DOMAIN out THEN out[name] ELSE <<>>) \o doc
     ELSE out[n]]

\* open(self.rmd_output, 'w') and the writes: the file is replaced
WriteRmd(out, name, doc) ==
  [n \in DOMAIN out \cup {name} |-> IF n = name THEN doc ELSE out[n]]

\* convert(): step 4 and the return
StageD ==
  /\ pc = "rmd"
  /\ \/ \* open() raises: nothing is written
        /\ rmdOut' = rmdOut
        /\ Returned("D", FALSE, "open")
     \/ \E readFails \in BOOLEAN :
          LET r == RmdDocument(PdfName, nougatDir, pngDir, readFails)
          IN /\ readFails => MmdFiles(nougatDir) # <<>>
             /\ rmdOut' = WriteRmd(rmdOut, RmdName, r.doc)
             /\ Returned("D", r.ok, IF RmdName \in DOMAIN rmdOut THEN "over" ELSE "new")
  /\ UNCHANGED <<run, argv, pdf_path, dirs, staged, pngDir, nougatDir>>

Next ==
  \/ \E p \in Paths : Main(p)
  \/ Construct
  \/ StageA
  \/ StageB
  \/ StageC
  \/ StageD

Spec == Init /\ [][Next]_vars

(* ---------------------------- properties ------------------------------- *)
Ran(s) == \E i \in 1..Len(stages) : stages[i].stage = s
Ok(s) == \E i \in 1..Len(stages) : stages[i].stage = s /\ stages[i].ok
NoteOf(s) == stages[CHOOSE i \in 1..Len(stages) : stages[i].stage = s].note
StagePcs == {"copy", "png", "nougat", "rmd"}
StageOrder == <<"A", "B", "C", "D">>

\* C1: whatever Stage C's outcome (OCR tool not resolvable, non-zero exit, no
\* transcript, an exception), convert() goes on to Stage D; and a run in which
\* stages A, B and D succeeded ends with exit code 0.
C1_StageCNeverAborts ==
  /\ Ran("C") => (pc = "rmd" \/ Ran("D"))
  /\ (pc = "done" /\ Ok("A") /\ Ok("B") /\ Ok("D")) => exitCode = 0

C2_OrderAndExit ==
  /\ Len(stages) <= 4
  /\ \A i \in 1..Len(stages) : stages[i].stage = StageOrder[i]
  /\ \A i \in 1..Len(stages) :
       (stages[i].stage \in {"A", "B", "D"} /\ ~stages[i].ok)
         => (i = Len(stages) /\ pc = "done" /\ exitCode = 1)
  /\ exitCode \in {-1, 0, 1}
  /\ exitCode = 0 => (pc = "done" /\ Ok("A") /\ Ok("B") /\ Ok("D"))
  /\ (pc = "done" /\ run > 0) => exitCode \in {0, 1}

C2_OnlyStageDWrites ==
  rmdOut' # rmdOut => (pc = "rmd" /\ stages # <<>> /\ \A i \in 1..Len(stages) : stages[i].ok)

\* C2: the stages run in the order A, B, C, D, each at most once per run; a
\* failed Stage A or B ends the run with exit code 1 and nothing runs after it
\* (the output document is written by Stage D alone, after stages that all
\* returned true); a failed Stage D ends the run with exit code 1; exit code 0
\* needs A, B and D to have succeeded.
C2_StrictOrder == [] C2_OrderAndExit /\ [][C2_OnlyStageDWrites]_vars

\* a failed rasterizer ended the run: two stages ran, exit code 1
C2_Witness ==
  pc = "done" /\ exitCode = 1 /\ Len(stages) = 2 /\ ~stages[2].ok /\ stages[2].note = "exit"

\* the page images of assets/out/png: what the rasterizer wrote, under any name
PageImages(png) == {n \in DOMAIN png : png[n].kind = "page"}

\* C3: after Stage B returned true, the page images are named exactly
\* 1.png .. N.png for some N >= 0, whatever padding the native names had.
C3_Contiguous ==
  Ok("B") =>
    PageImages(pngDir) = {Str(i) \o DotPng : i \in 1..Cardinality(PageImages(pngDir))}

\* Stage B succeeded on zero-padded native names and there are two pages or more
C3_Witness ==
  Ok("B") /\ NoteOf("B") = "padded" /\ Cardinality(PageImages(pngDir)) >= 2

\* the supplied path does not exist, or its extension is not .pdf in any case
InvalidArg(p) == p \notin Existing \/ p.name \in {NameRTxt, NameDot}

C4_Rejects ==
  /\ (run' # run /\ InvalidArg(argv')) =>
       /\ pc' = "done"
       /\ exitCode' = 1
       /\ stages' = <<>>
       /\ UNCHANGED fsVars
  /\ (run' # run /\ argv' \in Existing /\ argv'.name = NameBPDF) => pc' = "init"

\* C4: a path that does not exist, or whose extension is not .pdf (compared
\* without regard to case, so that b.PDF is accepted), makes main() return 1
\* with no converter constructed, no stage run and the working tree unchanged.
C4_InvalidInput ==
  /\ [] ((run > 0 /\ InvalidArg(argv)) => (pc = "done" /\ exitCode = 1 /\ stages = <<>>))
  /\ [][C4_Rejects]_vars

\* r.txt exists and was rejected before anything was created
C4_Witness ==
  run > 0 /\ argv.name = NameRTxt /\ pc = "done" /\ exitCode = 1 /\ dirs = AllAbsent

\* the transcript files of the OCR-output directory
Transcripts == {nougatDir[i] : i \in {j \in 1..Len(nougatDir) : EndsWith(nougatDir[j].name, DotMmd)}}

\* s is t without its trailing white space
IsTrimmed(s, t) ==
  \E k \in 0..Len(t) :
    /\ s = SubSeq(t, 1, k)
    /\ \A j \in (k + 1)..Len(t) : t[j] \in {" ", "\n"}
    /\ k > 0 => t[k] \notin {" ", "\n"}

Elements(q) == {q[i] : i \in 1..Len(q)}

\* C5: when a transcript file exists at Stage D and Stage D opened the output
\* document, no placeholder section is in it, and when Stage D returned true
\* the document is the header, the transcript marker comment and the text of
\* a transcript without its trailing white space, then one newline.
C5_TranscriptBody ==
  (Ran("D") /\ NoteOf("D") # "open" /\ Transcripts # {}) =>
     /\ PlaceholderMarker \notin Elements(rmdOut[RmdName])
     /\ Ok("D") =>
          \E e \in Transcripts :
            \E k \in 0..Len(e.text) :
              /\ IsTrimmed(SubSeq(e.text, 1, k), e.text)
              /\ rmdOut[RmdName] =
                   Header(PdfName) \o <<"\n", TranscriptMarker, "\n", "\n">>
                   \o SubSeq(e.text, 1, k) \o <<"\n">>

\* a transcript of white space only was embedded: the body is the marker and
\* one newline
C5_Witness ==
  /\ Ok("D")
  /\ Len(nougatDir) = 1
  /\ nougatDir[1].text = <<" ", "\n">>
  /\ rmdOut[RmdName] = Header(PdfName) \o <<"\n", TranscriptMarker, "\n", "\n", "\n">>

\* the transcript whose file name is first in lexical order
LexFirst(T) == CHOOSE e \in T : \A f \in T \ {e} : LexLess(e.name, f.name)

\* C6: with two or more transcript files at Stage D, the transcript read into
\* the output document is the one whose file name is first in lexical order.
C6_FirstInLexicalOrder ==
  (Ok("D") /\ Cardinality(Transcripts) >= 2) =>
     rmdOut[RmdName] = Header(PdfName) \o TranscriptBody(LexFirst(Transcripts).text)

\* <digits>.png
IsCanonical(n) ==
  /\ Len(n) > Len(DotPng)
  /\ EndsWith(n, DotPng)
  /\ \A i \in 1..(Len(n) - Len(DotPng)) : IsDigit(n[i])

\* C7: with no transcript file at Stage D, the output document holds the
\* placeholder section, and the page count in it is the number of canonical
\* page images in assets/out/png; other files there are not counted.
C7_PlaceholderCount ==
  (Ok("D") /\ Transcripts = {}) =>
     rmdOut[RmdName] =
       Header(PdfName)
       \o <<"\n", PlaceholderMarker, "\n", "\n", "## Document Pages",
           "\n", "\n", "_OCR transcript not available. Document has ">>
       \o Str(Cardinality({n \in DOMAIN pngDir : IsCanonical(n)}))
       \o <<" pages._", "\n", "\n">>

\* C8: after input validation passed, every I/O failure (creating the working
\* directories, copying, rasterizing, renaming, writing the output) becomes a
\* boolean stage failure and main() returns 1: no exception leaves main().
C8_NoUncaughtException ==
  /\ pc # "crashed"
  /\ (pc = "done" /\ run > 0) => exitCode \in {0, 1}

C9_StageAIdempotent ==
  (pc = "copy" /\ pdf_path.name \in DOMAIN staged) =>
     /\ staged' = staged
     /\ pc' = "png"
     /\ stages' = <<[stage |-> "A", ok |-> TRUE, note |-> "skip"]>>

C9_Overwritten ==
  Ok("D") => rmdOut[RmdName] = RmdDocument(PdfName, nougatDir, pngDir, FALSE).doc

\* C9: in a run over a working directory where the source is already staged,
\* Stage A returns true without copying and leaves assets/in as it was; after
\* Stage D returned true the output document is a function of the source's
\* base name and the transcript / page-image state alone, whatever the file
\* held before.
C9_Idempotent == [] C9_Overwritten /\ [][C9_StageAIdempotent]_vars

\* a second run skipped the copy and replaced an output document
C9_Witness ==
  run = 2 /\ Ok("D") /\ NoteOf("A") = "skip" /\ NoteOf("D") = "over"

C10_StagesLeaveDirs ==
  /\ (pc = "init" /\ dirs = AllDirs) => pc' = "copy"
  /\ pc \in StagePcs => dirs' = dirs

\* C10: while a stage is about to run or running, the four working-tree
\* directories exist; the constructor succeeds when they already exist; no
\* stage removes them.
C10_DirsExist ==
  /\ [] (pc \in StagePcs => dirs = AllDirs)
  /\ [][C10_StagesLeaveDirs]_vars

\* Stage D is about to run in a second run, over directories made before
C10_Witness == run = 2 /\ pc = "rmd" /\ dirs = AllDirs

\* the rasterizer's native pattern, as a whole name: page-<digits>.png
IsNative(n) ==
  /\ Len(n) > Len(PageDash) + Len(DotPng)
  /\ StartsWithAt(n, 1, PageDash)
  /\ EndsWith(n, DotPng)
  /\ \A i \in (Len(PageDash) + 1)..(Len(n) - Len(DotPng)) : IsDigit(n[i])

\* the page number in a native name
NativeNumber(n) == ParseInt(SubSeq(n, Len(PageDash) + 1, Len(n) - Len(DotPng)))

C11_Frame ==
  pc = "png" =>
    /\ \A n \in DOMAIN pngDir :
         (~IsNative(n) /\ ~IsCanonical(n)) =>
            (n \in DOMAIN pngDir' /\ pngDir'[n] = pngDir[n])
    /\ (pc' = "nougat") =>
         /\ \A n \in DOMAIN pngDir' : ~IsNative(n)
         /\ \A n \in DOMAIN pngDir :
              IsNative(n) => CanonName(NativeNumber(n)) \in DOMAIN pngDir'

\* C11: Stage B changes only files whose whole name is page-<digits>.png: any
\* other file of assets/out/png keeps its name and content (a file called
\* <digits>.png may be replaced by a renamed page), and after a successful
\* Stage B no native name is left, each having become <page number>.png.
C11_OnlyNativeRenamed == [][C11_Frame]_vars

\* C12: after Stage A returned true, the file of assets/in that stages B and C
\* read is a copy of the source given to this run, also when a file of that
\* name was staged by an earlier run.
C12_StagedIsSource ==
  Ok("A") =>
    /\ pdf_path.name \in DOMAIN staged
    /\ staged[pdf_path.name] = pdf_path

\* C13: a transcript in the output document of a run is the one the OCR tool
\* wrote in this run for this run's source; a run whose Stage C left no
\* transcript (the tool raised, failed or wrote nothing) writes the placeholder
\* section, never a transcript file an earlier run left in assets/out/nougat.
C13_TranscriptOfThisRun ==
  Ok("D") =>
    /\ NoteOf("C") # "wrote" =>
          /\ PlaceholderMarker \in Elements(rmdOut[RmdName])
          /\ TranscriptMarker \notin Elements(rmdOut[RmdName])
    /\ NoteOf("C") = "wrote" =>
          rmdOut[RmdName] =
            Header(PdfName) \o TranscriptBody(nougatDir[IndexOf(nougatDir, MmdName)].text)

\* the page images of assets/out/png called <digits>.png
CanonicalImages(png) == {n \in PageImages(png) : IsCanonical(n)}

\* C14: after Stage B returned true, the canonical images of assets/out/png
\* are as many as the pages the rasterizer wrote in this run: they are
\* 1.png .. N.png, the file i.png is page i as written in this run (none is an
\* earlier run's image), and every page written in this run is
\* among them.
C14_PagesOfThisRun ==
  Ok("B") =>
    LET canon == CanonicalImages(pngDir)
    IN /\ canon = {CanonName(i) : i \in 1..Cardinality(canon)}
       /\ \A i \in 1..Cardinality(canon) :
            pngDir[CanonName(i)] = [kind |-> "page", page |-> i, run |-> run]
       /\ \A n \in DOMAIN pngDir :
            (pngDir[n].kind = "page" /\ pngDir[n].run = run) => n \in canon

====
